---- MODULE Spec2Model ----
(***************************************************************************)
(* Drill-down coordinator of the PML price viewer (src/src/App.jsx).       *)
(*                                                                         *)
(* The component keeps a hierarchical selection (project, node, year,      *)
(* month, day) and three asynchronous loads (catalog, daily, hourly), one  *)
(* React effect each.  An effect runs after a commit whose dependency      *)
(* values differ from those of the previous commit; its cleanup sets the   *)
(* `cancel` flag captured by the previous run.  The effect body reads the  *)
(* values of the render it was created in (its closure) and queues state   *)
(* updates, which React applies in one batch before the next render.       *)
(*                                                                         *)
(* One action of the model is one browser event (a control change, a click *)
(* on a chart, the arrival of a response) together with the renders and    *)
(* effect runs that it causes, up to the point where the component waits   *)
(* for the next event.                                                     *)
(*                                                                         *)
(* JavaScript strings that the code slices or sorts (dates "YYYY-MM-DD",   *)
(* month keys "YYYY_MM", years "YYYY") are sequences of one-character      *)
(* strings; the empty string is << >>.  Opaque keys (project, node) are     *)
(* TLA+ strings, "" being the empty one.                                   *)
(***************************************************************************)
EXTENDS Integers, Sequences, FiniteSets, TLC

(***************************************************************************)
(* Bounds of the model.                                                    *)
(***************************************************************************)
\* how many control changes and chart clicks the user makes in one run
MaxUserEvents == 2
\* how many superseded requests are unanswered at one time
MaxStale == 1

(***************************************************************************)
(* Strings.                                                                *)
(***************************************************************************)
\* UTF-16 code unit of the characters that occur in dates and month keys
Code(c) ==
  CASE c = "-" -> 45
    [] c = "0" -> 48 [] c = "1" -> 49 [] c = "2" -> 50 [] c = "3" -> 51
    [] c = "4" -> 52 [] c = "5" -> 53 [] c = "6" -> 54 [] c = "7" -> 55
    [] c = "8" -> 56 [] c = "9" -> 57
    [] c = "_" -> 95

\* String.prototype.slice(a, b) for 0 <= a <= b
Slice(s, a, b) ==
  SubSeq(s, a + 1, IF b < Len(s) THEN b ELSE Len(s))

\* String.prototype.startsWith
StartsWith(s, p) ==
  /\ Len(p) <= Len(s)
  /\ SubSeq(s, 1, Len(p)) = p

\* a < b in the order Array.prototype.sort() uses by default (code units)
RECURSIVE StrLess(_, _)
StrLess(a, b) ==
  IF b = << >> THEN FALSE
  ELSE IF a = << >> THEN TRUE
  ELSE IF Code(Head(a)) # Code(Head(b)) THEN Code(Head(a)) < Code(Head(b))
  ELSE StrLess(Tail(a), Tail(b))

\* one step of an insertion sort: x placed before the first element greater than it
RECURSIVE InsertStr(_, _)
InsertStr(x, sorted) ==
  IF sorted = << >> THEN << x >>
  ELSE IF StrLess(x, Head(sorted)) THEN << x >> \o sorted
  ELSE << Head(sorted) >> \o InsertStr(x, Tail(sorted))

\* arr.slice().sort() on an array of strings
RECURSIVE SortStr(_)
SortStr(arr) ==
  IF arr = << >> THEN << >>
  ELSE InsertStr(arr[Len(arr)], SortStr(SubSeq(arr, 1, Len(arr) - 1)))

\* Array.from(new Set(arr)): the first occurrence of each element, in order
RECURSIVE Dedup(_)
Dedup(arr) ==
  IF arr = << >> THEN << >>
  ELSE LET init == Dedup(SubSeq(arr, 1, Len(arr) - 1))
           x == arr[Len(arr)]
       IN IF \E i \in 1..Len(init) : init[i] = x THEN init ELSE Append(init, x)

\* arr.includes(x)
Includes(arr, x) == \E i \in 1..Len(arr) : arr[i] = x

\* a variant that keeps the separator of the date: "YYYY-MM-DD" -> "YYYY-MM"
monthKeyWithDash(dateStr) == Slice(dateStr, 0, 7)

\* "YYYY-MM-DD" -> "YYYY_MM"
monthKeyFromDate(dateStr) ==
  Slice(dateStr, 0, 4) \o << "_" >> \o Slice(dateStr, 5, 7)

(***************************************************************************)
(* JSON scalars and JavaScript numbers.  A JSON scalar is numeric or not   *)
(* (a string such as "n/a", null); Number() of a non-numeric one is NaN.   *)
(***************************************************************************)
JNum(v) == [num |-> TRUE, v |-> v]
JBad == [num |-> FALSE, v |-> 0]
NaN == [nan |-> TRUE, v |-> 0]
\* Number(x)
Number(x) == IF x.num THEN [nan |-> FALSE, v |-> x.v] ELSE NaN


(***************************************************************************)
(* The body of a response: bytes, gzip-compressed or plain, that hold a    *)
(* JSON text.  The JSON values here are the digits 0..2 and the arrays of  *)
(* them; a value is [t, n, a]: a number n, or an array a of numbers.       *)
(* Compression is an encoding with the gzip magic bytes in front and the   *)
(* length of the content behind, which the decompressor checks.            *)
(***************************************************************************)
\* how long the arrays of the JSON values are at most
MaxArray == 3

JsonNumber(n) == [t |-> "num", n |-> n, a |-> << >>]
JsonArray(a) == [t |-> "arr", n |-> 0, a |-> a]

\* the logical contents
Digits == 0..2
Contents ==
  { JsonNumber(n) : n \in Digits }
    \cup { JsonArray(a) : a \in UNION { [1..k -> Digits] : k \in 0..MaxArray } }

\* JSON.stringify of a content
DigitChar(n) == CASE n = 0 -> "0" [] n = 1 -> "1" [] n = 2 -> "2"

RECURSIVE Join(_)
Join(a) ==
  IF a = << >> THEN << >>
  ELSE IF Len(a) = 1 THEN << DigitChar(a[1]) >>
  ELSE << DigitChar(a[1]), "," >> \o Join(Tail(a))

Stringify(v) ==
  IF v.t = "num" THEN << DigitChar(v.n) >>
  ELSE << "[" >> \o Join(v.a) \o << "]" >>

\* the characters of a JSON text and their UTF-8 bytes
JsonChars == { ",", "0", "1", "2", "[", "]" }
Utf8(c) ==
  CASE c = "," -> 44 [] c = "0" -> 48 [] c = "1" -> 49 [] c = "2" -> 50
    [] c = "[" -> 91 [] c = "]" -> 93

\* new TextEncoder().encode(text)
TextEncode(text) == [i \in 1..Len(text) |-> Utf8(text[i])]

\* new TextDecoder().decode(u8); "?" stands for every character that no JSON
\* text of the model holds
TextDecode(u8) ==
  [i \in 1..Len(u8) |->
     IF \E c \in JsonChars : Utf8(c) = u8[i]
       THEN CHOOSE c \in JsonChars : Utf8(c) = u8[i]
     ELSE "?"]

\* gzip of bytes: magic, the content encoded, the length of the content
Deflate(u8) == [i \in 1..Len(u8) |-> (u8[Len(u8) + 1 - i] + 128) % 256]
Inflate(z) == [i \in 1..Len(z) |-> (z[Len(z) + 1 - i] + 128) % 256]
Gzip(u8) == << 31, 139 >> \o Deflate(u8) \o << Len(u8) % 256 >>

\* what a function returns, or that it threw
Returned(v) == [ok |-> TRUE, value |-> v]
Threw == [ok |-> FALSE, value |-> << >>]

\* pako.ungzip(u8, { to: "string" })
Ungzip(u8) ==
  IF /\ Len(u8) >= 3
     /\ u8[1] = 31 /\ u8[2] = 139
     /\ u8[Len(u8)] = (Len(u8) - 3) % 256
    THEN Returned(TextDecode(Inflate(SubSeq(u8, 3, Len(u8) - 1))))
  ELSE Threw

\* JSON.parse(text)
IsDigitChar(c) == c \in { "0", "1", "2" }
DigitOf(c) == CASE c = "0" -> 0 [] c = "1" -> 1 [] c = "2" -> 2

JsonParse(text) ==
  IF Len(text) = 1 /\ IsDigitChar(text[1]) THEN Returned(JsonNumber(DigitOf(text[1])))
  ELSE IF Len(text) >= 2 /\ text[1] = "[" /\ text[Len(text)] = "]"
    THEN LET inner == SubSeq(text, 2, Len(text) - 1)
         IN IF inner = << >> THEN Returned(JsonArray(<< >>))
            ELSE IF /\ Len(inner) % 2 = 1
                    /\ \A i \in 1..Len(inner) :
                         IF i % 2 = 1 THEN IsDigitChar(inner[i]) ELSE inner[i] = ","
              THEN Returned(JsonArray([k \in 1..((Len(inner) + 1) \div 2) |->
                                          DigitOf(inner[2 * k - 1])]))
            ELSE Threw
  ELSE Threw

\* fetchGzJson of src/unnamed/part_001, after the status check: the body is
\* always decompressed
fetchGzJson(u8) ==
  LET text == Ungzip(u8)
  IN IF text.ok THEN JsonParse(text.value) ELSE Threw

\* fetchMaybeGzJson, after the status check
fetchMaybeGzJson(u8) ==
  LET isGz == Len(u8) >= 2 /\ u8[1] = 31 /\ u8[2] = 139
      text == IF isGz THEN Ungzip(u8) ELSE Returned(TextDecode(u8))
  IN IF text.ok THEN JsonParse(text.value) ELSE Threw

\* the bodies a response can have: a content as plain text or compressed,
\* and bytes that are neither
Bodies ==
  { [content |-> << c >>, gz |-> FALSE, bytes |-> TextEncode(Stringify(c))] : c \in Contents }
    \cup { [content |-> << c >>, gz |-> TRUE, bytes |-> Gzip(TextEncode(Stringify(c)))] :
             c \in Contents }
    \cup { [content |-> << >>, gz |-> FALSE, bytes |-> b] :
             b \in { << >>, << 31 >>, << 31, 139 >>, << 31, 49 >>, << 139, 31, 49, 1 >>,
                     << 31, 139, 177, 2 >>, << 91, 49 >> } }

(***************************************************************************)
(* The row field of a decoded document.  A field is [t, a]: absent, null,  *)
(* zero, another number, a non-empty string, or an array a of rows.        *)
(***************************************************************************)
\* how many rows the documents given to a row mapping have at most
MaxRows == 3

Absent == [t |-> "absent", a |-> << >>]
JsNull == [t |-> "null", a |-> << >>]
JsZero == [t |-> "zero", a |-> << >>]
JsFive == [t |-> "number", a |-> << >>]
JsText == [t |-> "string", a |-> << >>]
JsRows(a) == [t |-> "array", a |-> a]

\* x || y: y when x is undefined, null or 0
Or(x, y) == IF x.t \in { "absent", "null", "zero" } THEN y ELSE x

\* the values a row field can have, over the rows of set R
Fields(R) ==
  { Absent, JsNull, JsZero, JsFive, JsText }
    \cup { JsRows(a) : a \in UNION { [1..k -> R] : k \in 0..MaxRows } }

(***************************************************************************)
(* The remote store.  What it answers is not under the program's control:  *)
(* a response is drawn from the sets below when it arrives.                *)
(***************************************************************************)
PROJECTS == << "border", "dds", "pima", "rum", "tep", "ventika" >>
Projects == { PROJECTS[1], PROJECTS[2] }

Y2023 == << "2", "0", "2", "3" >>
Y2024 == << "2", "0", "2", "4" >>
M2024_03 == << "2", "0", "2", "4", "_", "0", "3" >>
M2024_04 == << "2", "0", "2", "4", "_", "0", "4" >>
D2023_12_31 == << "2", "0", "2", "3", "-", "1", "2", "-", "3", "1" >>
D2024_03_15 == << "2", "0", "2", "4", "-", "0", "3", "-", "1", "5" >>
D2024_03_16 == << "2", "0", "2", "4", "-", "0", "3", "-", "1", "6" >>
D2024_04_01 == << "2", "0", "2", "4", "-", "0", "4", "-", "0", "1" >>

\* index.json documents: a declared default with months out of order and a
\* second node; a declared default that is not listed; no declared default and
\* a first node without months; no nodes at all
Catalogs ==
  { [defaultNode |-> "X",
     nodes |-> << [node |-> "X", months |-> << M2024_04, M2024_03 >>],
                  [node |-> "Y", months |-> << M2024_03 >>] >>],
    [defaultNode |-> "Z",
     nodes |-> << [node |-> "X", months |-> << M2024_03 >>] >>],
    [defaultNode |-> "",
     nodes |-> << [node |-> "Y", months |-> << >>] >>],
    [defaultNode |-> "", nodes |-> << >>] }

\* a raw daily row [date, avg, min, max, count]
RawDaily(d, avg, min, max, n) == << d, JNum(avg), JNum(min), JNum(max), JNum(n) >>

\* daily/series.json.gz documents: rows of two years, not in ascending order
\* of date; no rows
DailyPayloads ==
  { [daily |-> << RawDaily(D2024_03_15, 20, 10, 30, 24),
                  RawDaily(D2024_03_16, 26, 20, 40, 23),
                  RawDaily(D2024_04_01, 5, 5, 5, 24),
                  RawDaily(D2023_12_31, 7, 5, 9, 24) >>],
    [daily |-> << >>] }

\* a raw hourly row [date, hour, price]
RawHourly(d, h, p) == << d, JNum(h), JNum(p) >>

\* the rows stored for one month: hours not in order, or no rows
HourlyRows(monthKey) ==
  IF monthKey = M2024_03
    THEN { << RawHourly(D2024_03_15, 1, 30), RawHourly(D2024_03_15, 0, 10),
              RawHourly(D2024_03_16, 0, 20) >>, << >> }
  ELSE IF monthKey = M2024_04
    THEN { << RawHourly(D2024_04_01, 0, 5) >>, << >> }
  ELSE { << >> }

\* hourly/{monthKey}.json.gz documents of one node and month
HourlyPayloads(project, nodeId, monthKey) ==
  { [project |-> project, node |-> nodeId, month |-> monthKey, rows |-> rows] :
      rows \in HourlyRows(monthKey) }

\* what makes a load throw: a response whose status is not 2xx, or a body
\* that cannot be decompressed or parsed
Failures ==
  { [kind |-> "http", status |-> 404],
    [kind |-> "decode", status |-> 0] }

(***************************************************************************)
(* State of the component.                                                 *)
(***************************************************************************)
VARIABLES
  projectKey,     \* useState(PROJECTS[0].key)
  indexData,      \* Null, or << idx >> for a loaded index.json
  node,           \* "" or a node id
  year,           \* "YYYY"
  month,          \* "" or "YYYY_MM"
  day,            \* "" or "YYYY-MM-DD"
  dailySeries,    \* [{d, avg, min, max, n}]
  monthlySeries,  \* [{d, h, pml}]
  monthlyMeta,    \* Null, or << metadata of the hourly document >>
  error,          \* "" (<< >>) or the message of the last failure
  loading,        \* {idx, daily, month}
  requests,       \* the fetches not yet answered, each with the closure of its effect run
  src,            \* history: per axis, the request whose document the axis now shows
  out,            \* history: per axis, how the request issued last was answered
  nuser,          \* history: how many control changes and clicks were made
  ev,             \* history: the event that led to this state
  probe           \* one application of a function of the program: input and result

\* the variables of the component
appVars ==
  << projectKey, indexData, node, year, month, day, dailySeries, monthlySeries,
     monthlyMeta, error, loading, requests, src, out, nuser, ev >>

vars == << appVars, probe >>

\* no function is applied
NoProbe == [stage |-> "none", fn |-> "", input |-> << >>, output |-> << >>]

\* null
Null == << >>
\* ""
Empty == << >>
\* no request
NoSrc == [project |-> "", node |-> "", month |-> Empty]
\* the request issued last is unanswered; no request was issued
Pending == [state |-> "pending", doc |-> << >>]
Idle == [state |-> "idle", doc |-> << >>]

\* the current values, as one record
St ==
  [projectKey |-> projectKey, indexData |-> indexData, node |-> node, year |-> year,
   month |-> month, day |-> day, dailySeries |-> dailySeries,
   monthlySeries |-> monthlySeries, monthlyMeta |-> monthlyMeta, error |-> error,
   loading |-> loading, requests |-> requests, src |-> src, out |-> out]

\* the next values are those of record t, reached by event e
Commit(t, e) ==
  /\ projectKey' = t.projectKey
  /\ indexData' = t.indexData
  /\ node' = t.node
  /\ year' = t.year
  /\ month' = t.month
  /\ day' = t.day
  /\ dailySeries' = t.dailySeries
  /\ monthlySeries' = t.monthlySeries
  /\ monthlyMeta' = t.monthlyMeta
  /\ error' = t.error
  /\ loading' = t.loading
  /\ requests' = t.requests
  /\ src' = t.src
  /\ out' = t.out
  /\ ev' = e
  /\ probe' = probe

\* an event record
Event(op, key, arg, live, ok) ==
  [op |-> op, key |-> key, arg |-> arg, live |-> live, ok |-> ok]

\* the selection key of an axis in record s
AxisKey(axis, s) ==
  CASE axis = "idx" -> [project |-> s.projectKey, node |-> "", month |-> Empty]
    [] axis = "daily" -> [project |-> s.projectKey, node |-> s.node, month |-> Empty]
    [] axis = "month" -> [project |-> s.projectKey, node |-> s.node, month |-> s.month]

(***************************************************************************)
(* Requests.  A request carries what the closure of its effect run holds:  *)
(* the key it was issued for, the `day` of that render, and `cancel`.      *)
(***************************************************************************)
Request(axis, project, nodeId, monthKey, dayStr) ==
  [axis |-> axis, project |-> project, node |-> nodeId, month |-> monthKey,
   day |-> dayStr, cancel |-> FALSE, latest |-> TRUE]

\* the unanswered requests once request q is issued; history: q is now the
\* request of its axis issued last
Issue(reqs, q) ==
  { IF o.axis = q.axis THEN [o EXCEPT !.latest = FALSE] ELSE o : o \in reqs } \cup { q }

\* the key a request was issued for
SrcOf(q) == [project |-> q.project, node |-> q.node, month |-> q.month]

\* the URL of a request: `${BASE}/pml-mda/${projectKey}/...`
Url(q) == << q.axis, q.project, q.node, q.month >>

\* a variant whose message omits the URL
ErrorMessageWithoutUrl(q, failure) ==
  IF failure.kind = "http" THEN << "HTTP", failure.status, << >> >>
  ELSE << "SyntaxError", 0, << >> >>

\* String(e.message || e) of what the fetch helpers throw:
\* `HTTP ${r.status} ${r.statusText} - ${url}`, or the message of the parser
ErrorMessage(q, failure) ==
  IF failure.kind = "http" THEN << "HTTP", failure.status, Url(q) >>
  ELSE << "SyntaxError", 0, << >> >>

(***************************************************************************)
(* The three load effects: the part of each that runs before its await.    *)
(* r holds the values of the render the effect was created in, t the       *)
(* state with the updates queued so far in this commit.                    *)
(***************************************************************************)
\* a variant of the catalog effect that omits setDay("")
IndexEffectKeepingDay(r, t) ==
  [t EXCEPT !.error = Empty,
               !.loading.idx = TRUE,
               !.indexData = Null,
               !.node = "",
               !.month = Empty,
               !.dailySeries = << >>,
               !.monthlySeries = << >>,
               !.monthlyMeta = Null,
               !.requests = Issue(@, Request("idx", r.projectKey, "", Empty, Empty)),
               !.src = [idx |-> NoSrc, daily |-> NoSrc, month |-> NoSrc],
               !.out.idx = Pending]

\* useEffect(..., [projectKey]): load index.json
IndexEffect(r, t) ==
  [t EXCEPT !.error = Empty,
               !.loading.idx = TRUE,
               !.indexData = Null,
               !.node = "",
               !.month = Empty,
               !.day = Empty,
               !.dailySeries = << >>,
               !.monthlySeries = << >>,
               !.monthlyMeta = Null,
               !.requests = Issue(@, Request("idx", r.projectKey, "", Empty, Empty)),
               !.src = [idx |-> NoSrc, daily |-> NoSrc, month |-> NoSrc],
               !.out.idx = Pending]

\* a variant of the daily effect that omits setDailySeries([])
DailyEffectKeepingSeries(r, t) ==
  IF r.projectKey = "" \/ r.node = "" THEN t
  ELSE [t EXCEPT !.error = Empty,
                 !.loading.daily = TRUE,
                 !.requests = Issue(@, Request("daily", r.projectKey, r.node, Empty, Empty)),
                 !.src.daily = NoSrc,
                 !.out.daily = Pending]

\* useEffect(..., [projectKey, node]): load the daily series
DailyEffect(r, t) ==
  IF r.projectKey = "" \/ r.node = "" THEN t
  ELSE [t EXCEPT !.error = Empty,
                 !.loading.daily = TRUE,
                 !.dailySeries = << >>,
                 !.requests = Issue(@, Request("daily", r.projectKey, r.node, Empty, Empty)),
                 !.src.daily = NoSrc,
                 !.out.daily = Pending]

\* a variant of the hourly effect that omits setMonthlySeries([])
HourlyEffectKeepingSeries(r, t) ==
  IF r.projectKey = "" \/ r.node = "" \/ r.month = Empty THEN t
  ELSE [t EXCEPT !.error = Empty,
                 !.loading.month = TRUE,
                 !.monthlyMeta = Null,
                 !.requests = Issue(@, Request("month", r.projectKey, r.node, r.month, r.day)),
                 !.src.month = NoSrc,
                 !.out.month = Pending]

\* a variant of the hourly effect whose guard omits the month
HourlyEffectWithoutMonthGuard(r, t) ==
  IF r.projectKey = "" \/ r.node = "" THEN t
  ELSE [t EXCEPT !.error = Empty,
                 !.loading.month = TRUE,
                 !.monthlySeries = << >>,
                 !.monthlyMeta = Null,
                 !.requests = Issue(@, Request("month", r.projectKey, r.node, r.month, r.day)),
                 !.src.month = NoSrc,
                 !.out.month = Pending]

\* useEffect(..., [projectKey, node, month]): load the hourly series of the month
HourlyEffect(r, t) ==
  IF r.projectKey = "" \/ r.node = "" \/ r.month = Empty THEN t
  ELSE [t EXCEPT !.error = Empty,
                 !.loading.month = TRUE,
                 !.monthlySeries = << >>,
                 !.monthlyMeta = Null,
                 !.requests = Issue(@, Request("month", r.projectKey, r.node, r.month, r.day)),
                 !.src.month = NoSrc,
                 !.out.month = Pending]

\* a variant in which the daily effect also depends on `month`
DepsDailyWithMonth(s) ==
  [idx |-> << s.projectKey >>,
   daily |-> << s.projectKey, s.node, s.month >>,
   month |-> << s.projectKey, s.node, s.month >>]

\* a variant in which the hourly effect also depends on `year`
DepsWithYear(s) ==
  [idx |-> << s.projectKey >>,
   daily |-> << s.projectKey, s.node >>,
   month |-> << s.projectKey, s.node, s.month, s.year >>]

\* the dependency arrays of the three effects in a render
Deps(s) ==
  [idx |-> << s.projectKey >>,
   daily |-> << s.projectKey, s.node >>,
   month |-> << s.projectKey, s.node, s.month >>]

\* whether the effect of an axis has a changed dependency since the commit
\* whose dependency arrays were d
DepsChanged(axis, d, s) == Deps(s)[axis] # d[axis]

\* a variant in which no effect returns a cleanup
CleanupMissing(d, s) == s.requests

\* return () => { cancel = true; } of every effect whose dependencies changed
Cleanup(d, s) ==
  { IF DepsChanged(q.axis, d, s) THEN [q EXCEPT !.cancel = TRUE] ELSE q :
      q \in s.requests }

\* one commit: the cleanups, then the effects with changed dependencies, in
\* the order of their declaration, all reading the same render r
RunEffects(d, r) ==
  LET t0 == [r EXCEPT !.requests = Cleanup(d, r)]
      t1 == IF DepsChanged("idx", d, r) THEN IndexEffect(r, t0) ELSE t0
      t2 == IF DepsChanged("daily", d, r) THEN DailyEffect(r, t1) ELSE t1
      t3 == IF DepsChanged("month", d, r) THEN HourlyEffect(r, t2) ELSE t2
  IN t3

\* render and commit until no effect has a changed dependency; d holds the
\* dependencies of the previous commit
RECURSIVE Flush(_, _)
Flush(d, r) ==
  IF Deps(r) = d THEN r ELSE Flush(Deps(r), RunEffects(d, r))

\* the first commit runs every effect
Mount(r) ==
  LET t == HourlyEffect(r, DailyEffect(r, IndexEffect(r, r)))
  IN Flush(Deps(r), t)

InitApp ==
  LET r == [projectKey |-> PROJECTS[1], indexData |-> Null, node |-> "", year |-> Y2024,
            month |-> Empty, day |-> Empty, dailySeries |-> << >>,
            monthlySeries |-> << >>, monthlyMeta |-> Null, error |-> Empty,
            loading |-> [idx |-> FALSE, daily |-> FALSE, month |-> FALSE],
            requests |-> { },
            src |-> [idx |-> NoSrc, daily |-> NoSrc, month |-> NoSrc],
            out |-> [idx |-> Idle, daily |-> Idle, month |-> Idle]]
      t == Mount(r)
  IN /\ projectKey = t.projectKey
     /\ indexData = t.indexData
     /\ node = t.node
     /\ year = t.year
     /\ month = t.month
     /\ day = t.day
     /\ dailySeries = t.dailySeries
     /\ monthlySeries = t.monthlySeries
     /\ monthlyMeta = t.monthlyMeta
     /\ error = t.error
     /\ loading = t.loading
     /\ requests = t.requests
     /\ src = t.src
     /\ out = t.out
     /\ nuser = 0
     /\ ev = Event("mount", "", Empty, TRUE, TRUE)

Init == InitApp /\ probe = NoProbe

\* an event whose state updates give record t: render, run the effects, commit
Step(t, e) ==
  /\ Commit(Flush(Deps(St), t), e)
  /\ nuser' = nuser

\* the same for an event that the user causes
UserStep(t, e) ==
  LET f == Flush(Deps(St), t)
  IN /\ nuser < MaxUserEvents
     /\ Cardinality({ q \in f.requests : q.cancel }) <= MaxStale
     /\ Commit(f, e)
     /\ nuser' = nuser + 1

(***************************************************************************)
(* Derived views (useMemo): functions of the current state.                *)
(***************************************************************************)
\* indexData.nodes, [] when there is no index
IndexNodes(s) == IF s.indexData = Null THEN << >> ELSE s.indexData[1].nodes

\* nodes.find((n) => n.node === x): << >> for undefined, else << n >>
FindNode(nodes, x) ==
  IF \E i \in 1..Len(nodes) : nodes[i].node = x
    THEN << nodes[CHOOSE i \in 1..Len(nodes) :
                    /\ nodes[i].node = x
                    /\ \A j \in 1..(i - 1) : nodes[j].node # x] >>
  ELSE << >>

\* the node ids of the node control
nodeOptions == [i \in 1..Len(IndexNodes(St)) |-> IndexNodes(St)[i].node]

\* a variant that lists the months in the order of the catalog
monthOptionsUnsorted ==
  IF IndexNodes(St) = << >> \/ node = "" THEN << >>
  ELSE LET nodeObj == FindNode(IndexNodes(St), node)
       IN IF nodeObj = << >> THEN << >> ELSE nodeObj[1].months

\* the month keys of the month control
monthOptions ==
  IF IndexNodes(St) = << >> \/ node = "" THEN << >>
  ELSE LET nodeObj == FindNode(IndexNodes(St), node)
       IN SortStr(IF nodeObj = << >> THEN << >> ELSE nodeObj[1].months)

\* the years of the year control
yearOptions ==
  SortStr(Dedup([i \in 1..Len(dailySeries) |-> Slice(dailySeries[i].d, 0, 4)]))

\* the dates of the day control
dayOptions ==
  SortStr(Dedup([i \in 1..Len(monthlySeries) |-> monthlySeries[i].d]))

\* Infinity and -Infinity, the values min and max start from
Infinity == [inf |-> TRUE, v |-> 1]
MinusInfinity == [inf |-> TRUE, v |-> -1]
Finite(v) == [inf |-> FALSE, v |-> v]

\* sum += x over an array of numbers, from 0: NaN once a NaN was added
RECURSIVE Sum(_)
Sum(xs) ==
  IF xs = << >> THEN [nan |-> FALSE, v |-> 0]
  ELSE LET acc == Sum(SubSeq(xs, 1, Len(xs) - 1))
           x == xs[Len(xs)]
       IN IF acc.nan \/ x.nan THEN NaN ELSE [nan |-> FALSE, v |-> acc.v + x.v]

\* `if (x < min) min = x` over an array of numbers, from Infinity: a
\* comparison with NaN is false
RECURSIVE Lowest(_)
Lowest(xs) ==
  IF xs = << >> THEN Infinity
  ELSE LET cur == Lowest(SubSeq(xs, 1, Len(xs) - 1))
           x == xs[Len(xs)]
       IN IF ~x.nan /\ (cur.inf \/ x.v < cur.v) THEN Finite(x.v) ELSE cur

\* `if (x > max) max = x` over an array of numbers, from -Infinity
RECURSIVE Highest(_)
Highest(xs) ==
  IF xs = << >> THEN MinusInfinity
  ELSE LET cur == Highest(SubSeq(xs, 1, Len(xs) - 1))
           x == xs[Len(xs)]
       IN IF ~x.nan /\ (cur.inf \/ x.v > cur.v) THEN Finite(x.v) ELSE cur

\* a / b for b > 0, kept as the exact quotient num / den
Quotient(a, b) == [nan |-> a.nan, num |-> a.v, den |-> b]

\* the daily rows of one YYYY-MM, in the order of the series
MonthRows(ym) == SelectSeq(dailySeries, LAMBDA r : Slice(r.d, 0, 7) = ym)

\* a variant that weighs the average of a day by the count of its row
MonthEntryWeighted(ym) ==
  LET rows == MonthRows(ym)
      RowN(i) == IF rows[i].n.nan THEN 0 ELSE rows[i].n.v
  IN [t |-> ym,
      avg |-> Quotient(Sum([i \in 1..Len(rows) |->
                              IF rows[i].avg.nan THEN NaN
                              ELSE [nan |-> FALSE, v |-> rows[i].avg.v * RowN(i)]]),
                       Sum([i \in 1..Len(rows) |-> [nan |-> FALSE, v |-> RowN(i)]]).v),
      min |-> Lowest([i \in 1..Len(rows) |-> rows[i].min]),
      max |-> Highest([i \in 1..Len(rows) |-> rows[i].max]),
      year |-> Slice(ym, 0, 4)]

\* the entry of the historical chart for one YYYY-MM
MonthEntry(ym) ==
  LET rows == MonthRows(ym)
  IN [t |-> ym,
      avg |-> Quotient(Sum([i \in 1..Len(rows) |-> rows[i].avg]), Len(rows)),
      min |-> Lowest([i \in 1..Len(rows) |-> rows[i].min]),
      max |-> Highest([i \in 1..Len(rows) |-> rows[i].max]),
      year |-> Slice(ym, 0, 4)]

\* a variant that keeps the months in the order of their first row
histChartUnsorted ==
  LET yms == Dedup([i \in 1..Len(dailySeries) |-> Slice(dailySeries[i].d, 0, 7)])
  IN [i \in 1..Len(yms) |-> MonthEntry(yms[i])]

\* the points of the historical chart: one per YYYY-MM of the daily series,
\* ascending; of a point, the drill reads the year
histChart ==
  LET yms == SortStr(Dedup([i \in 1..Len(dailySeries) |-> Slice(dailySeries[i].d, 0, 7)]))
  IN [i \in 1..Len(yms) |-> MonthEntry(yms[i])]

\* a variant that matches the year without the hyphen after it
annualSliceByPrefix(rows, y) ==
  LET keep == SelectSeq(rows, LAMBDA r : StartsWith(r.d, y))
  IN [i \in 1..Len(keep) |->
        [t |-> keep[i].d, avg |-> keep[i].avg, min |-> keep[i].min,
         max |-> keep[i].max, n |-> keep[i].n]]

\* rows.filter((r) => r.d.startsWith(y + "-")).map(...)
annualSlice(rows, y) ==
  LET keep == SelectSeq(rows, LAMBDA r : StartsWith(r.d, y \o << "-" >>))
  IN [i \in 1..Len(keep) |->
        [t |-> keep[i].d, avg |-> keep[i].avg, min |-> keep[i].min,
         max |-> keep[i].max, n |-> keep[i].n]]

\* the points of the annual chart: the daily rows of the selected year
annualChart == annualSlice(dailySeries, year)

\* String(n).padStart(2, "0") for a number of at most two digits
pad2(n) ==
  LET digit == << "0", "1", "2", "3", "4", "5", "6", "7", "8", "9" >>
  IN IF n.nan THEN << "N", "a", "N" >>
     ELSE IF n.v < 10 THEN << "0", digit[n.v + 1] >>
     ELSE << digit[(n.v \div 10) + 1], digit[(n.v % 10) + 1] >>

\* one step of a stable insertion sort by hour: r placed after the elements
\* whose hour is not greater than its hour
RECURSIVE InsertByHour(_, _)
InsertByHour(r, sorted) ==
  IF sorted = << >> THEN << r >>
  ELSE IF r.h.v < Head(sorted).h.v THEN << r >> \o sorted
  ELSE << Head(sorted) >> \o InsertByHour(r, Tail(sorted))

\* arr.slice().sort((a, b) => a.h - b.h), for hours that are numbers
RECURSIVE SortByHour(_)
SortByHour(arr) ==
  IF arr = << >> THEN << >>
  ELSE InsertByHour(arr[Len(arr)], SortByHour(SubSeq(arr, 1, Len(arr) - 1)))

\* the entry of the day chart for a point of the hourly series
DayPoint(r) == [t |-> pad2(r.h) \o << ":", "0", "0" >>, pml |-> r.pml, hour |-> r.h]

\* a variant that keeps the rows of the day in the order of the series
daySliceUnsorted(rows, d) ==
  IF d = Empty THEN << >>
  ELSE LET keep == SelectSeq(rows, LAMBDA r : r.d = d)
       IN [i \in 1..Len(keep) |-> DayPoint(keep[i])]

\* rows.filter((r) => r.d === d).slice().sort(...).map(...); [] for no day
daySlice(rows, d) ==
  IF d = Empty THEN << >>
  ELSE LET keep == SortByHour(SelectSeq(rows, LAMBDA r : r.d = d))
       IN [i \in 1..Len(keep) |-> DayPoint(keep[i])]

\* the points of the day chart: the hourly rows of the selected day
daySeries == daySlice(monthlySeries, day)

\* what formatMoney returns: null, or the text of a number with two
\* decimals, kept as the number of hundredths it shows; the text of an
\* infinite number shows no digits
MoneyNull == [k |-> "null", cents |-> 0]
Money(cents) == [k |-> "text", cents |-> cents]
MoneyInfinite(sign) == [k |-> "infinite", cents |-> sign]

\* a / b rounded to the nearest integer, halves away from zero, for a >= 0
Round(a, b) == (2 * a + b) \div (2 * b)

\* formatMoney(n) of a number: NaN, infinite, finite or a quotient
formatMoney(x) ==
  IF "nan" \in DOMAIN x /\ x.nan THEN MoneyNull
  ELSE IF "inf" \in DOMAIN x /\ x.inf THEN MoneyInfinite(x.v)
  ELSE IF "den" \in DOMAIN x THEN Money(Round(100 * x.num, x.den))
  ELSE Money(100 * x.v)

\* computeStats(values)
computeStats(values) ==
  IF values = << >> THEN [min |-> MoneyNull, max |-> MoneyNull, avg |-> MoneyNull, n |-> 0]
  ELSE LET sum == Sum(SelectSeq(values, LAMBDA x : ~x.nan))
           n == Len(values)
       IN [min |-> formatMoney(Lowest(values)),
           max |-> formatMoney(Highest(values)),
           avg |-> formatMoney(Quotient(sum, n)),
           n |-> n]

\* the statistics of the month and of the day
monthStats == computeStats([i \in 1..Len(monthlySeries) |-> monthlySeries[i].pml])
dayStats == computeStats([i \in 1..Len(daySeries) |-> daySeries[i].pml])

\* the elements of an array
Elems(arr) == { arr[i] : i \in 1..Len(arr) }

(***************************************************************************)
(* What a load does when its response arrives.                             *)
(***************************************************************************)
\* try-branch of the catalog load, after the await
IndexSuccess(q, idx, t) ==
  IF q.cancel THEN t
  ELSE LET defaultNode ==
             IF idx.defaultNode # "" THEN idx.defaultNode
             ELSE IF idx.nodes # << >> THEN idx.nodes[1].node
             ELSE ""
           found == FindNode(idx.nodes, defaultNode)
           nodeObj == IF found # << >> THEN found
                      ELSE IF idx.nodes # << >> THEN << idx.nodes[1] >>
                      ELSE << >>
           months == SortStr(IF nodeObj = << >> THEN << >> ELSE nodeObj[1].months)
           lastMonth == IF months # << >> THEN months[Len(months)] ELSE Empty
       IN [t EXCEPT !.indexData = << idx >>,
                    !.node = defaultNode,
                    !.month = lastMonth,
                    !.year = IF lastMonth # Empty THEN Slice(lastMonth, 0, 4) ELSE @,
                    !.loading.idx = FALSE,
                    !.src.idx = SrcOf(q)]

\* (data.daily || []).map(row => ({d, avg, min, max, n}))
DailyRows(data) ==
  [i \in 1..Len(data.daily) |->
     LET row == data.daily[i]
     IN [d |-> row[1], avg |-> Number(row[2]), min |-> Number(row[3]),
         max |-> Number(row[4]),
         n |-> IF Len(row) >= 5 THEN Number(row[5]) ELSE Number(JNum(0))]]

\* the rows of the daily load from a decoded document, or the TypeError of
\* `.map` on a value that is not an array
DailyTry(doc) ==
  LET rows == Or(doc.daily, JsRows(<< >>))
  IN IF rows.t = "array" THEN Returned(DailyRows([daily |-> rows.a])) ELSE Threw

\* a variant that takes the default year from the first row
DailySuccessFirstRow(q, data, t) ==
  IF q.cancel THEN t
  ELSE LET daily == DailyRows(data)
       IN [t EXCEPT !.dailySeries = daily,
                    !.year = IF daily # << >> THEN Slice(daily[1].d, 0, 4) ELSE @,
                    !.loading.daily = FALSE,
                    !.src.daily = SrcOf(q)]

\* a variant that takes the default year as the first seven characters of the
\* last date
DailySuccessYearOfMonth(q, data, t) ==
  IF q.cancel THEN t
  ELSE LET daily == DailyRows(data)
       IN [t EXCEPT !.dailySeries = daily,
                    !.year = IF daily # << >> THEN Slice(daily[Len(daily)].d, 0, 7) ELSE @,
                    !.loading.daily = FALSE,
                    !.src.daily = SrcOf(q)]

\* try-branch of the daily load, after the await
DailySuccess(q, data, t) ==
  IF q.cancel THEN t
  ELSE LET daily == DailyRows(data)
       IN [t EXCEPT !.dailySeries = daily,
                    !.year = IF daily # << >> THEN Slice(daily[Len(daily)].d, 0, 4) ELSE @,
                    !.loading.daily = FALSE,
                    !.src.daily = SrcOf(q)]

\* (data.rows || []).map(r => ({d, h, pml}))
HourlyPoints(data) ==
  [i \in 1..Len(data.rows) |->
     LET r == data.rows[i]
     IN [d |-> r[1], h |-> Number(r[2]), pml |-> Number(r[3])]]

\* the points of the hourly load from a decoded document, or the TypeError
\* of `.map` on a value that is not an array
HourlyTry(doc) ==
  LET rows == Or(doc.rows, JsRows(<< >>))
  IN IF rows.t = "array" THEN Returned(HourlyPoints([rows |-> rows.a])) ELSE Threw

\* a variant that always takes the first day of the month
DefaultDayFirst(q, days, t) ==
  [t EXCEPT !.day = IF days # << >> THEN days[1] ELSE Empty]

\* the default day of the hourly load; `day` is the closure's
DefaultDay(q, days, t) ==
  IF q.day = Empty \/ ~Includes(days, q.day)
    THEN [t EXCEPT !.day = IF days # << >> THEN days[1] ELSE Empty]
  ELSE t

\* a variant without `if (cancel) return;`
HourlySuccessUnguarded(q, data, t) ==
  LET pts == HourlyPoints(data)
      days == SortStr(Dedup([i \in 1..Len(pts) |-> pts[i].d]))
      t1 == [t EXCEPT !.monthlyMeta =
                        << [project |-> data.project, node |-> data.node,
                            month |-> data.month] >>,
                      !.monthlySeries = pts,
                      !.loading.month = FALSE,
                      !.src.month = SrcOf(q)]
  IN DefaultDay(q, days, t1)

\* try-branch of the hourly load, after the await
HourlySuccess(q, data, t) ==
  IF q.cancel THEN t
  ELSE LET pts == HourlyPoints(data)
           days == SortStr(Dedup([i \in 1..Len(pts) |-> pts[i].d]))
           t1 == [t EXCEPT !.monthlyMeta =
                             << [project |-> data.project, node |-> data.node,
                                 month |-> data.month] >>,
                           !.monthlySeries = pts,
                           !.loading.month = FALSE,
                           !.src.month = SrcOf(q)]
       IN DefaultDay(q, days, t1)

\* a variant without `if (!cancel)` in catch and finally
LoadFailureUnguarded(q, failure, t) ==
  [t EXCEPT !.error = ErrorMessage(q, failure),
               !.loading = [@ EXCEPT ![q.axis] = FALSE]]

\* a variant whose catch-branch fetches again
LoadFailureRetrying(q, failure, t) ==
  IF q.cancel THEN t
  ELSE [t EXCEPT !.error = ErrorMessage(q, failure),
                 !.requests = Issue(@, Request(q.axis, q.project, q.node, q.month, q.day))]

\* a variant whose finally-branch clears every loading flag
LoadFailureClearingAll(q, failure, t) ==
  IF q.cancel THEN t
  ELSE [t EXCEPT !.error = ErrorMessage(q, failure),
                 !.loading = [idx |-> FALSE, daily |-> FALSE, month |-> FALSE]]

\* catch- and finally-branch of a load that threw
LoadFailure(q, failure, t) ==
  IF q.cancel THEN t
  ELSE [t EXCEPT !.error = ErrorMessage(q, failure),
                 !.loading = [@ EXCEPT ![q.axis] = FALSE]]

\* history: request q is superseded when a later request of its axis was
\* issued or the selection key of its axis is no longer the one it was issued for
Superseded(q) == ~q.latest \/ SrcOf(q) # AxisKey(q.axis, St)

\* history: the event of the response to request q; of a dropped response,
\* the project it was requested for
Response(q, ok) ==
  IF Superseded(q) THEN Event("discard", q.axis, << q.project >>, FALSE, ok)
  ELSE Event("response", q.axis, Empty, TRUE, ok)

\* the state once request q is answered with document doc ("ok") or by a
\* failure ("fail"); history: the answer, when q is the request issued last
Answered(q, state, doc) ==
  [St EXCEPT !.requests = @ \ { q },
             !.out = IF q.latest THEN [@ EXCEPT ![q.axis] = [state |-> state, doc |-> doc]]
                     ELSE @]

(***************************************************************************)
(* Events: responses.                                                      *)
(***************************************************************************)
IndexResponse ==
  \E q \in requests, idx \in Catalogs :
    /\ q.axis = "idx"
    /\ Step(IndexSuccess(q, idx, Answered(q, "ok", << idx >>)),
            Response(q, TRUE))

DailyResponse ==
  \E q \in requests, data \in DailyPayloads :
    /\ q.axis = "daily"
    /\ Step(DailySuccess(q, data, Answered(q, "ok", << data >>)),
            Response(q, TRUE))

HourlyResponse ==
  \E q \in requests :
    /\ q.axis = "month"
    /\ \E data \in HourlyPayloads(q.project, q.node, q.month) :
         Step(HourlySuccess(q, data, Answered(q, "ok", << data >>)),
              Response(q, TRUE))

FailedResponse ==
  \E q \in requests, failure \in Failures :
    Step(LoadFailure(q, failure, Answered(q, "fail", << failure >>)),
         Response(q, FALSE))

(***************************************************************************)
(* Events: the controls.  A <select> reports a change to one of its        *)
(* options, and none while it is disabled.                                 *)
(***************************************************************************)
ChangeProject ==
  \E v \in Projects :
    /\ ~loading.idx
    /\ v # projectKey
    /\ UserStep([St EXCEPT !.projectKey = v], Event("project", v, Empty, TRUE, TRUE))

\* the same <select> where it is never disabled (src/unnamed/part_001)
ChangeProjectEarly ==
  \E v \in Projects :
    /\ loading.idx
    /\ v # projectKey
    /\ UserStep([St EXCEPT !.projectKey = v], Event("project", v, Empty, TRUE, TRUE))

ChangeNode ==
  \E v \in Elems(nodeOptions) :
    /\ ~(loading.idx \/ nodeOptions = << >>)
    /\ v # node
    /\ UserStep([St EXCEPT !.node = v], Event("node", v, Empty, TRUE, TRUE))

ChangeYear ==
  \E v \in Elems(yearOptions) :
    /\ ~(loading.daily \/ yearOptions = << >>)
    /\ v # year
    /\ UserStep([St EXCEPT !.year = v], Event("year", "", v, TRUE, TRUE))

ChangeMonth ==
  \E v \in Elems(monthOptions) :
    /\ ~(loading.idx \/ monthOptions = << >>)
    /\ v # month
    /\ UserStep([St EXCEPT !.month = v], Event("month", "", v, TRUE, TRUE))

ChangeDay ==
  \E v \in Elems(dayOptions) :
    /\ ~(loading.month \/ dayOptions = << >>)
    /\ v # day
    /\ UserStep([St EXCEPT !.day = v], Event("day", "", v, TRUE, TRUE))

(***************************************************************************)
(* Events: the drills.  A click reports the point under the pointer, or    *)
(* no point; a handler returns at once when the click carries no point or  *)
(* the point lacks the field it reads.                                     *)
(***************************************************************************)
\* the payloads a click on a chart can carry: none, or one of its points
Clicks(chart) == { << >> } \cup { << chart[i] >> : i \in 1..Len(chart) }

\* a variant of the historical drill that also clears the day
onHistClickClearingDay ==
  \E e \in Clicks(histChart) :
    IF e = << >> \/ e[1].year = Empty THEN UserStep(St, Event("miss", "hist", Empty, TRUE, TRUE))
    ELSE UserStep([St EXCEPT !.year = e[1].year, !.day = Empty],
                  Event("hist", "", e[1].year, TRUE, TRUE))

onHistClick ==
  \E e \in Clicks(histChart) :
    IF e = << >> \/ e[1].year = Empty THEN UserStep(St, Event("miss", "hist", Empty, TRUE, TRUE))
    ELSE UserStep([St EXCEPT !.year = e[1].year], Event("hist", "", e[1].year, TRUE, TRUE))

onAnnualClick ==
  \E e \in Clicks(annualChart) :
    IF e = << >> \/ e[1].t = Empty THEN UserStep(St, Event("miss", "annual", Empty, TRUE, TRUE))
    ELSE LET clickedDay == e[1].t
             mk == monthKeyFromDate(clickedDay)
             t1 == IF Includes(monthOptions, mk) THEN [St EXCEPT !.month = mk] ELSE St
         IN UserStep([t1 EXCEPT !.day = clickedDay],
                 Event("annual", "", clickedDay, TRUE, TRUE))

onMonthClick ==
  \E e \in Clicks(monthlySeries) :
    IF e = << >> \/ e[1].d = Empty THEN UserStep(St, Event("miss", "monthly", Empty, TRUE, TRUE))
    ELSE UserStep([St EXCEPT !.day = e[1].d], Event("monthly", "", e[1].d, TRUE, TRUE))

(***************************************************************************)
(* The component.                                                          *)
(***************************************************************************)
Next ==
  \/ IndexResponse
  \/ DailyResponse
  \/ HourlyResponse
  \/ FailedResponse
  \/ ChangeProject
  \/ ChangeNode
  \/ ChangeYear
  \/ ChangeMonth
  \/ ChangeDay
  \/ onHistClick
  \/ onAnnualClick
  \/ onMonthClick

Spec == Init /\ [][Next]_vars

\* the arrival of the response of an outstanding request
Settle ==
  \/ FailedResponse
  \/ IndexResponse
  \/ DailyResponse
  \/ HourlyResponse

\* the component when no request hangs: every fetch is answered, by a
\* document or by a failure
SpecLive == Init /\ [][Next]_vars /\ WF_vars(Settle)

\* the component with a project control that is enabled while the catalog loads
NextOpen ==
  \/ Next
  \/ ChangeProjectEarly

SpecOpen == Init /\ [][NextOpen]_vars

(***************************************************************************)
(* The functions of the program, one application at a time: the input is   *)
(* drawn at the start, a step applies the function to it.                  *)
(***************************************************************************)
ProbeInput(fn, x) == [stage |-> "in", fn |-> fn, input |-> x, output |-> << >>]

\* hourly rows [date, hour, price], one of them with a price that is no number
ProbeHourlyRows ==
  { << D2024_03_15, JNum(0), JNum(10) >>,
    << D2024_03_15, JNum(1), JBad >>,
    << D2024_03_16, JNum(0), JNum(20) >> }

\* decoded hourly documents
HourlyDocs == { [rows |-> f] : f \in Fields(ProbeHourlyRows) }

\* daily rows in the two shapes: [date, avg, min, max, count] under `daily`,
\* [date, count, avg, min, max] under `rows`
ProbeDailyOld ==
  { << D2024_03_15, JNum(10), JNum(5), JNum(20), JNum(24) >>,
    << D2024_03_16, JNum(11), JNum(6), JNum(21), JNum(23) >> }
ProbeDailyNew ==
  { << D2024_03_15, JNum(24), JNum(10), JNum(5), JNum(20) >>,
    << D2024_03_16, JNum(23), JNum(11), JNum(6), JNum(21) >> }

\* decoded daily documents
DailyDocs ==
  { [daily |-> f, rows |-> Absent] : f \in Fields(ProbeDailyOld) }
    \cup { [daily |-> Absent, rows |-> f] : f \in Fields(ProbeDailyNew) }

\* arrays of at most MaxRows elements of R
Arrays(R) == UNION { [1..k -> R] : k \in 0..MaxRows }

\* daily series, in any order of date, and the years to slice them by: a year
\* of the series, a year of none of its rows, a prefix of a year, no year
ProbeDailySeries ==
  Arrays({ DailyRows([daily |-> << RawDaily(d, 10, 5, 20, 24) >>])[1] :
             d \in { D2023_12_31, D2024_03_15, D2024_04_01 } })
ProbeYears == { Y2023, Y2024, << "2", "0", "2", "5" >>, << "2", "0", "2" >>, << >> }

\* hourly series, in any order of hour, one hour of a day twice (the day of
\* 25 hours), and the days to slice them by: a day of the series, a day of
\* none of its rows, no day
ProbeHourlySeries ==
  Arrays({ HourlyPoints([rows |-> << r >>])[1] :
             r \in { RawHourly(D2024_03_15, 0, 10), RawHourly(D2024_03_15, 1, 30),
                     RawHourly(D2024_03_15, 1, 20), RawHourly(D2024_03_16, 0, 20) } })
ProbeDays == { D2024_03_15, D2024_03_16, D2024_04_01, Empty }

\* lists of prices, some of them NaN
ProbeValues == Arrays({ NaN, Number(JNum(10)), Number(JNum(20)) })

ProbeInputs ==
  { ProbeInput("decode", b) : b \in Bodies }
    \cup { ProbeInput("stats", values) : values \in ProbeValues }
    \cup { ProbeInput("day", [rows |-> rows, day |-> d]) :
             rows \in ProbeHourlySeries, d \in ProbeDays }
    \cup { ProbeInput("annual", [rows |-> rows, year |-> y]) :
             rows \in ProbeDailySeries, y \in ProbeYears }
    \cup { ProbeInput("hourly", doc) : doc \in HourlyDocs }
    \cup { ProbeInput("daily", doc) : doc \in DailyDocs }

InitPure == InitApp /\ probe \in ProbeInputs

\* the result of applying function fn to the input of the probe
Apply(fn, result) ==
  /\ probe.stage = "in" /\ probe.fn = fn
  /\ probe' = [probe EXCEPT !.stage = "out", !.output = result]
  /\ UNCHANGED appVars

DecodeBody == Apply("decode", fetchMaybeGzJson(probe.input.bytes))

MapHourly == Apply("hourly", HourlyTry(probe.input))

MapDaily == Apply("daily", DailyTry(probe.input))

SliceYear == Apply("annual", annualSlice(probe.input.rows, probe.input.year))

SliceDay == Apply("day", daySlice(probe.input.rows, probe.input.day))

Stats == Apply("stats", computeStats(probe.input))

NextPure ==
  \/ DecodeBody
  \/ Stats
  \/ SliceDay
  \/ MapHourly
  \/ MapDaily
  \/ SliceYear

SpecPure == InitPure /\ [][NextPure]_vars

(***************************************************************************)
(* Properties.                                                             *)
(***************************************************************************)
\* the dates of the rows of the hourly series in record s
SeriesDates(s) == { s.monthlySeries[i].d : i \in 1..Len(s.monthlySeries) }

\* the month keys that the catalog document idx lists for node id x
ListedMonths(idx, x) ==
  UNION { Elems(idx.nodes[i].months) :
            i \in { j \in 1..Len(idx.nodes) : idx.nodes[j].node = x } }

\* the least and the greatest string of a non-empty set
Least(S) == CHOOSE m \in S : \A o \in S : ~StrLess(o, m)
Greatest(S) == CHOOSE m \in S : \A o \in S : ~StrLess(m, o)

\* a response arrived and was committed; a response arrived and was dropped
Committed(e, axis) == e.op = "response" /\ e.key = axis
Dropped(e) == e.op = "discard"

\* C1: a response is committed only when its request is the one issued last
\* for its axis and the key it was issued for is still the selected one; so a
\* catalog, a daily series or an hourly series that is not empty is the
\* document that was requested for the current key of its axis.
C1_CommitOnlyForCurrentKey ==
  /\ \A q \in requests : q.cancel <=> Superseded(q)
  /\ indexData # Null => src.idx = AxisKey("idx", St)
  /\ dailySeries # << >> => src.daily = AxisKey("daily", St)
  /\ monthlySeries # << >> =>
       /\ src.month = AxisKey("month", St)
       /\ monthlyMeta = << AxisKey("month", St) >>

\* C1 happens: all three axes show data, and the response of a superseded
\* request has just arrived
C1_Witness ==
  /\ Dropped(ev) /\ ev.ok
  /\ indexData # Null /\ dailySeries # << >> /\ monthlySeries # << >>

\* C2: once no hourly response is outstanding, the hourly series, its
\* metadata and the hourly loading flag are what the response to the hourly
\* request issued last makes them, whatever the order in which the responses
\* of that request and of the requests it superseded arrived, and whether
\* each succeeded or failed.
C2_HourlyReflectsLastRequest ==
  (/\ month # Empty /\ node # ""
   /\ \A q \in requests : q.axis # "month") =>
     /\ ~loading.month
     /\ out.month.state \in { "ok", "fail" }
     /\ out.month.state = "ok" =>
          LET rows == out.month.doc[1].rows
          IN /\ Len(monthlySeries) = Len(rows)
             /\ \A i \in 1..Len(rows) :
                  /\ monthlySeries[i].d = rows[i][1]
                  /\ monthlySeries[i].h = Number(rows[i][2])
                  /\ monthlySeries[i].pml = Number(rows[i][3])
             /\ monthlyMeta = << [project |-> projectKey, node |-> node, month |-> month] >>
     /\ out.month.state = "fail" => monthlySeries = << >> /\ monthlyMeta = Null

\* C2 happens: the month was switched from 2024_04 to 2024_03 while 2024_04
\* was loading; the response for 2024_03 succeeded, and the response for
\* 2024_04 arrived after it
C2_Witness ==
  /\ Dropped(ev) /\ ev.key = "month"
  /\ nuser = 1
  /\ indexData # Null /\ indexData[1].defaultNode = "X" /\ node = "X"
  /\ month = M2024_03
  /\ \A q \in requests : q.axis # "month"
  /\ out.month.state = "ok" /\ monthlySeries # << >>

\* C3: the arrival of a failed response of a superseded request, of any of
\* the three axes, changes neither the error message nor a loading flag.
C3_SupersededFailureIsSilent ==
  [][(Dropped(ev') /\ ~ev'.ok) => (error' = error /\ loading' = loading)]_vars

\* C3 happens: a superseded hourly request has just failed while the hourly
\* request that superseded it is still loading and no error is shown
C3_Witness ==
  /\ Dropped(ev) /\ ~ev.ok /\ ev.key = "month"
  /\ loading.month /\ error = Empty
  /\ \E q \in requests : q.axis = "month" /\ ~q.cancel

C5_CatalogDefaults ==
  (Committed(ev, "idx") /\ ev.ok) =>
    LET idx == indexData[1]
        listed == ListedMonths(idx, node)
    IN /\ node = IF idx.defaultNode # "" THEN idx.defaultNode
                 ELSE IF idx.nodes # << >> THEN idx.nodes[1].node
                 ELSE ""
       /\ month = IF listed = { } THEN Empty ELSE Greatest(listed)
       /\ month # Empty => year = Slice(month, 0, 4)

\* C6: when an hourly response is committed, day stays as it was at the
\* arrival when it is among the dates of the rows, and otherwise becomes the
\* least of those dates, or empty when there are no rows.
C6_DayKeptWhenInRows ==
  [][(Committed(ev', "month") /\ ev'.ok) =>
        LET dates == SeriesDates([monthlySeries |-> monthlySeries'])
        IN day' = IF day \in dates THEN day
                  ELSE IF dates = { } THEN Empty
                  ELSE Least(dates)]_vars

\* C7: a day that is not empty is one of the dates of the rows of the hourly
\* series; stated for the states in which an hourly series with rows is shown
\* and no hourly response is outstanding.
C7_DayAmongDates ==
  (/\ day # Empty
   /\ monthlySeries # << >>
   /\ ~loading.month
   /\ \A q \in requests : q.axis # "month") => day \in SeriesDates(St)

\* C8: a step that makes another node the selected one issues a daily request
\* for the project and that node; when a daily response is committed, year
\* becomes the first four characters of the date of the last row of the
\* document, and stays as it was when the document has no row, and month and
\* day stay as they were.
C8_NodeChangeLoadsDaily ==
  [][/\ (node' # node /\ node' # "") =>
          \E q \in requests' \ requests :
            /\ q.axis = "daily" /\ q.project = projectKey' /\ q.node = node'
            /\ ~q.cancel /\ q.latest
            /\ loading'.daily
     /\ (Committed(ev', "daily") /\ ev'.ok) =>
          LET rows == out'.daily.doc[1].daily
          IN /\ year' = IF rows # << >> THEN Slice(rows[Len(rows)][1], 0, 4) ELSE year
             /\ month' = month
             /\ day' = day
    ]_vars

\* C8 happens: the node control moved the selection from the default node X
\* to Y, and the daily response for Y has just been committed: the year is
\* that of its last row, the month is still the one that was selected
C8_Witness ==
  /\ Committed(ev, "daily") /\ ev.ok
  /\ indexData # Null /\ indexData[1].defaultNode = "X" /\ node = "Y"
  /\ dailySeries # << >> /\ year = Y2023
  /\ month = M2024_04

\* C9: a change of the year control or of the day control issues no request,
\* supersedes none, and leaves the catalog, the daily series, the hourly
\* series, node, month and the loading flags as they were.
C9_YearAndDayAreLocal ==
  [][(ev'.op \in { "year", "day" } /\ (year' # year \/ day' # day)) =>
        UNCHANGED << requests, indexData, dailySeries, monthlySeries, node, month,
                     loading >>]_vars

\* C9 happens: the year control has just been changed while a request that is
\* not superseded is outstanding
C9_Witness ==
  /\ ev.op = "year" /\ year = ev.arg
  /\ \E q \in requests : ~q.cancel

\* C10: a click on the annual chart at a point of date D makes day D; with K
\* the first four characters of D, "_", and its sixth and seventh, month
\* becomes K when the catalog lists K for the selected node, and stays as it
\* was otherwise.  A click on 2024-03-15 while 2024_03 is listed makes month
\* 2024_03 and day 2024-03-15.
C10_AnnualDrill ==
  [][ev'.op = "annual" =>
        LET D == ev'.arg
            K == << D[1], D[2], D[3], D[4], "_", D[6], D[7] >>
            listed == IF indexData = Null THEN { } ELSE ListedMonths(indexData[1], node)
        IN /\ day' = D
           /\ month' = IF K \in listed THEN K ELSE month
           /\ (D = D2024_03_15 /\ M2024_03 \in listed) =>
                (month' = M2024_03 /\ day' = D2024_03_15)]_vars

\* C10 happens: a click on 2024-03-15 has just moved the month to 2024_03, and
\* the hourly request for it is outstanding
C10_Witness ==
  /\ ev.op = "annual" /\ ev.arg = D2024_03_15
  /\ month = M2024_03 /\ day = D2024_03_15
  /\ \E q \in requests :
       q.axis = "month" /\ q.month = M2024_03 /\ q.day = D2024_03_15 /\ ~q.cancel

\* C11: a click on a point of the historical chart makes year the year of
\* that point and leaves project, node, month and day as they were; a click on
\* a point of the monthly chart makes day the date of that point and leaves
\* project, node, year and month as they were; a click that carries no point,
\* or a point without the field the handler reads, changes nothing.
C11_DrillsAreLocal ==
  [][/\ ev'.op = "hist" =>
          /\ \E i \in 1..Len(histChart) : histChart[i].year = ev'.arg
          /\ year' = ev'.arg
          /\ UNCHANGED << projectKey, node, month, day >>
     /\ ev'.op = "monthly" =>
          /\ \E i \in 1..Len(monthlySeries) : monthlySeries[i].d = ev'.arg
          /\ day' = ev'.arg
          /\ UNCHANGED << projectKey, node, year, month >>
     /\ ev'.op = "miss" =>
          UNCHANGED << projectKey, indexData, node, year, month, day, dailySeries,
                       monthlySeries, monthlyMeta, error, loading, requests >>
    ]_vars

\* C11 happens: a click on a 2024 point of the historical chart has just
\* moved the year from 2023 to 2024, with a month and a day selected
C11_Witness ==
  /\ ev.op = "hist" /\ ev.arg = Y2024 /\ year = Y2024
  /\ month # Empty /\ day # Empty
  /\ \E i \in 1..Len(dailySeries) :
       i = Len(dailySeries) /\ Slice(dailySeries[i].d, 0, 4) = Y2023

\* a request of an axis for a key was issued in this step and is not superseded
Started(axis, key) ==
  \E q \in requests' \ requests :
    q.axis = axis /\ SrcOf(q) = key /\ ~q.cancel /\ q.latest

OthersOutstanding(axis) ==
  { q \in requests' : q.axis # axis } = { q \in requests : q.axis # axis }

\* C13: when a request that is not superseded fails, by a status that is not
\* 2xx or by a body that does not decode, its axis has no data, its loading
\* flag is false and the error message is not empty; the data and the
\* loading flags of the other axes, their outstanding requests and the
\* selection are as they were before the response arrived.
C13_FailureEmptiesOneAxis ==
  [][/\ (Committed(ev', "idx") /\ ~ev'.ok) =>
          /\ indexData' = Null /\ ~loading'.idx /\ error' # Empty
          /\ loading'.daily = loading.daily /\ loading'.month = loading.month
          /\ OthersOutstanding("idx")
          /\ UNCHANGED << projectKey, node, year, month, day, dailySeries,
                          monthlySeries, monthlyMeta >>
     /\ (Committed(ev', "daily") /\ ~ev'.ok) =>
          /\ dailySeries' = << >> /\ ~loading'.daily /\ error' # Empty
          /\ loading'.idx = loading.idx /\ loading'.month = loading.month
          /\ OthersOutstanding("daily")
          /\ UNCHANGED << projectKey, node, year, month, day, indexData,
                          monthlySeries, monthlyMeta >>
     /\ (Committed(ev', "month") /\ ~ev'.ok) =>
          /\ monthlySeries' = << >> /\ monthlyMeta' = Null
          /\ ~loading'.month /\ error' # Empty
          /\ loading'.idx = loading.idx /\ loading'.daily = loading.daily
          /\ OthersOutstanding("month")
          /\ UNCHANGED << projectKey, node, year, month, day, indexData,
                          dailySeries >>
    ]_vars

\* C13 happens: the daily request has just failed because its body did not
\* decode, while the catalog and the hourly series are shown
C13_Witness ==
  /\ Committed(ev, "daily") /\ ~ev.ok
  /\ out.daily.state = "fail" /\ out.daily.doc[1].kind = "decode"
  /\ dailySeries = << >> /\ ~loading.daily /\ error # Empty
  /\ indexData # Null /\ monthlySeries # << >> /\ day # Empty

\* C14: a response whose status is not 2xx commits no data; when its request
\* is not superseded, the error message holds the status of the response and
\* the URL of the request.
C14_HttpFailureCarriesStatusAndUrl ==
  [][/\ (ev'.op \in { "response", "discard" } /\ ~ev'.ok) =>
          UNCHANGED << indexData, dailySeries, monthlySeries, monthlyMeta >>
     /\ \A axis \in { "idx", "daily", "month" } :
          (/\ Committed(ev', axis) /\ ~ev'.ok
           /\ out'[axis].doc[1].kind = "http") =>
             LET key == AxisKey(axis, St)
             IN /\ error'[1] = "HTTP"
                /\ error'[2] = out'[axis].doc[1].status
                /\ error'[3] = << axis, key.project, key.node, key.month >>
    ]_vars

\* C14 happens: the hourly request has just been answered by status 404, and
\* the message holds 404 and the URL of the selected project, node and month
C14_Witness ==
  /\ Committed(ev, "month") /\ ~ev.ok
  /\ error = << "HTTP", 404, << "month", projectKey, node, month >> >>
  /\ node # "" /\ month # Empty
  /\ monthlySeries = << >> /\ dailySeries # << >>

\* the selection key of an axis is another after this step
KeyChanged(axis) == AxisKey(axis, St)' # AxisKey(axis, St)

\* the axes
Axes == { "idx", "daily", "month" }

\* C15: a request of an axis is issued only in a step that changes the
\* selection key of that axis, so none follows a failure while the key stays;
\* and a step issues at most one request for each axis whose key it changes:
\* the outstanding requests grow by no more than the number of changed keys,
\* less the request that the step answers.
C15_NoRetry ==
  [][/\ \A axis \in Axes :
          (\E q \in requests' \ requests : q.axis = axis /\ q.latest) => KeyChanged(axis)
     /\ Cardinality(requests') + (IF ev'.op \in { "response", "discard" } THEN 1 ELSE 0)
          <= Cardinality(requests) + Cardinality({ axis \in Axes : KeyChanged(axis) })
    ]_vars

\* C15 happens: the hourly load has failed, and after a user event that
\* leaves its key alone no hourly request is outstanding
C15_Witness ==
  /\ ev.op \in { "year", "day", "hist", "miss" }
  /\ out.month.state = "fail" /\ ~loading.month
  /\ node # "" /\ month # Empty
  /\ \A q \in requests : q.axis # "month"

\* the probe holds the result of function fn
Applied(fn) == probe.stage = "out" /\ probe.fn = fn

\* C16: the bytes of a content decode to that content, whether they are its
\* plain UTF-8 text or the compression of it, so both decode to the same
\* structure; the decoder decompresses exactly the bodies that begin with
\* the two magic bytes, and parses every other body as text.
C16_GzipAndPlainDecodeAlike ==
  Applied("decode") =>
    LET body == probe.input
        magic == Len(body.bytes) >= 2 /\ body.bytes[1] = 31 /\ body.bytes[2] = 139
    IN /\ body.content # << >> => probe.output = Returned(body.content[1])
       /\ body.content # << >> => (magic <=> body.gz)
       /\ ~magic => probe.output = JsonParse(TextDecode(body.bytes))
       /\ magic =>
            probe.output = IF Ungzip(body.bytes).ok
                             THEN JsonParse(Ungzip(body.bytes).value)
                           ELSE Threw

\* C16 happens: the compression of the text of [1,2] has been decoded
C16_Witness ==
  /\ Applied("decode")
  /\ probe.input.gz
  /\ probe.input.bytes[1] = 31 /\ probe.input.bytes[2] = 139
  /\ probe.input.content = << JsonArray(<< 1, 2 >>) >>
  /\ probe.output = Returned(JsonArray(<< 1, 2 >>))

\* C17: of an hourly document whose rows are an array, the load does not
\* throw, and the series holds, in the order of the document, exactly the
\* rows whose price is a number; the rows with another price are not in it.
\* (The count of dropped rows that the claim adds has no counterpart in the
\* state of the component.)
C17_MalformedRowsDropped ==
  (Applied("hourly") /\ probe.input.rows.t = "array") =>
    LET kept == SelectSeq(probe.input.rows.a, LAMBDA r : r[3].num)
    IN /\ probe.output.ok
       /\ Len(probe.output.value) = Len(kept)
       /\ \A i \in 1..Len(kept) :
            /\ probe.output.value[i].d = kept[i][1]
            /\ probe.output.value[i].pml = [nan |-> FALSE, v |-> kept[i][3].v]

\* C18: a daily or hourly document whose row field is absent, or is not an
\* array, makes the load throw.
C18_MissingRowsFail ==
  /\ (Applied("hourly") /\ probe.input.rows.t # "array") => ~probe.output.ok
  /\ (/\ Applied("daily")
      /\ probe.input.daily.t # "array" /\ probe.input.rows.t # "array") =>
       ~probe.output.ok

\* C19: of a daily document in either shape, rows [date, avg, min, max,
\* count] under `daily` or rows [date, count, avg, min, max] under `rows`,
\* the load gives the same rows: avg, min, max and n of a row hold the avg,
\* min, max and count of the document's row.
C19_BothDailyShapes ==
  (/\ Applied("daily")
   /\ probe.input.daily.t = "array" \/ probe.input.rows.t = "array") =>
     LET new == probe.input.rows.t = "array"
         raw == IF new THEN probe.input.rows.a ELSE probe.input.daily.a
         At(row, old, now) == [nan |-> FALSE, v |-> row[IF new THEN now ELSE old].v]
     IN /\ probe.output.ok
        /\ Len(probe.output.value) = Len(raw)
        /\ \A i \in 1..Len(raw) :
             /\ probe.output.value[i].d = raw[i][1]
             /\ probe.output.value[i].avg = At(raw[i], 2, 3)
             /\ probe.output.value[i].min = At(raw[i], 3, 4)
             /\ probe.output.value[i].max = At(raw[i], 4, 5)
             /\ probe.output.value[i].n = At(raw[i], 5, 2)

\* C20: the monthly rollup of the daily series has exactly one entry for each
\* distinct YYYY-MM of the series, its entries strictly ascend by month
\* whatever the order of the rows, and the rollup of an empty series is empty.
C20_RollupOnePerMonthAscending ==
  LET months == { Slice(dailySeries[i].d, 0, 7) : i \in 1..Len(dailySeries) }
  IN /\ { histChart[i].t : i \in 1..Len(histChart) } = months
     /\ Len(histChart) = Cardinality(months)
     /\ \A i, j \in 1..Len(histChart) :
          i < j => StrLess(histChart[i].t, histChart[j].t)
     /\ dailySeries = << >> => histChart = << >>

\* a series whose rows are out of order and share a month, with its rollup
C20_Witness ==
  /\ \E i, j \in 1..Len(dailySeries) :
       /\ i < j
       /\ StrLess(Slice(dailySeries[j].d, 0, 7), Slice(dailySeries[i].d, 0, 7))
  /\ \E i, j \in 1..Len(dailySeries) :
       i # j /\ Slice(dailySeries[i].d, 0, 7) = Slice(dailySeries[j].d, 0, 7)
  /\ Len(histChart) >= 2
  /\ Len(histChart) < Len(dailySeries)

\* C21: of every entry of the monthly rollup, avg is the sum of the avg
\* fields of the month's daily rows divided by the number of those rows,
\* whatever their counts, min is the least of their min fields and max the
\* greatest of their max fields.
C21_RollupIsUnweighted ==
  \A k \in 1..Len(histChart) :
    LET e == histChart[k]
        I == { i \in 1..Len(dailySeries) : Slice(dailySeries[i].d, 0, 7) = e.t }
        Numeric == \A i \in I : ~dailySeries[i].avg.nan /\ ~dailySeries[i].min.nan
                                  /\ ~dailySeries[i].max.nan
        RECURSIVE Total(_)
        Total(S) == IF S = {} THEN 0
                    ELSE LET i == CHOOSE i \in S : TRUE
                         IN dailySeries[i].avg.v + Total(S \ {i})
    IN Numeric =>
         /\ I # {}
         /\ ~e.avg.nan /\ e.avg.den = Cardinality(I)
         /\ e.avg.num = Total(I)
         /\ ~e.min.inf /\ \E i \in I : dailySeries[i].min.v = e.min.v
         /\ \A i \in I : e.min.v <= dailySeries[i].min.v
         /\ ~e.max.inf /\ \E i \in I : dailySeries[i].max.v = e.max.v
         /\ \A i \in I : e.max.v >= dailySeries[i].max.v

\* a rollup entry of two daily rows with different counts, averages, minima
\* and maxima
C21_Witness ==
  \E k \in 1..Len(histChart) :
    \E i, j \in 1..Len(dailySeries) :
      /\ i # j
      /\ Slice(dailySeries[i].d, 0, 7) = histChart[k].t
      /\ Slice(dailySeries[j].d, 0, 7) = histChart[k].t
      /\ dailySeries[i].n # dailySeries[j].n
      /\ dailySeries[i].avg # dailySeries[j].avg
      /\ dailySeries[i].min.v < dailySeries[j].min.v
      /\ dailySeries[i].max.v < dailySeries[j].max.v
      /\ histChart[k].avg.den = 2

\* the k-th least element of a set of indices
Nth(I, k) == CHOOSE i \in I : Cardinality({ j \in I : j <= i }) = k

\* C22: the annual slice of a daily series for year Y holds exactly the rows
\* whose date is Y followed by a hyphen and the rest, each once and in the
\* order they have in the series; it is empty when no row has that year.
C22_AnnualSlice ==
  Applied("annual") =>
    LET rows == probe.input.rows
        y == probe.input.year
        I == { i \in 1..Len(rows) :
                 /\ Len(rows[i].d) > Len(y)
                 /\ Slice(rows[i].d, 0, Len(y)) = y
                 /\ rows[i].d[Len(y) + 1] = "-" }
    IN /\ Len(probe.output) = Cardinality(I)
       /\ \A k \in 1..Len(probe.output) :
            LET r == rows[Nth(I, k)]
            IN probe.output[k] =
                 [t |-> r.d, avg |-> r.avg, min |-> r.min, max |-> r.max, n |-> r.n]
       /\ I = {} => probe.output = << >>

\* a series of two years, the later year first, sliced to the row of one of
\* them
C22_Witness ==
  /\ Applied("annual")
  /\ Len(probe.input.rows) = 2 /\ Len(probe.output) = 1
  /\ StrLess(probe.input.rows[2].d, probe.input.rows[1].d)
  /\ probe.output[1].t = probe.input.rows[1].d

\* C23: the daily slice of an hourly series for day D holds exactly the rows
\* whose date is D, each once, none dropped and none added (two rows of one
\* hour stay two), in ascending order of hour whatever their order in the
\* series; it is empty when D is the empty day.
C23_DailySlice ==
  Applied("day") =>
    LET rows == probe.input.rows
        d == probe.input.day
        I == { i \in 1..Len(rows) : rows[i].d = d }
        n == Len(probe.output)
    IN /\ n = Cardinality(I)
       /\ \E f \in [1..n -> I] :
            /\ \A k, l \in 1..n : k # l => f[k] # f[l]
            /\ \A k \in 1..n :
                 /\ probe.output[k].hour = rows[f[k]].h
                 /\ probe.output[k].pml = rows[f[k]].pml
       /\ \A k, l \in 1..n : k < l => probe.output[k].hour.v <= probe.output[l].hour.v
       /\ d = Empty => probe.output = << >>

\* three rows of one day, a later hour first and one hour twice, sliced
C23_Witness ==
  /\ Applied("day")
  /\ Len(probe.input.rows) = 3 /\ Len(probe.output) = 3
  /\ probe.input.rows[1].h.v > probe.input.rows[2].h.v
  /\ probe.output[2].hour = probe.output[3].hour
  /\ probe.output[2].pml # probe.output[3].pml

\* the sum of the values at the indices I of a list of numbers
RECURSIVE SumAt(_, _)
SumAt(xs, I) ==
  IF I = {} THEN 0
  ELSE LET i == CHOOSE i \in I : TRUE IN xs[i].v + SumAt(xs, I \ {i})

\* C24: of a list with at least one valid number, the statistics report n as
\* the number of valid entries, avg as their sum divided by their number, and
\* min and max as the least and the greatest of them; the entries that are
\* no numbers count in none of the four.
C24_StatsOverValidEntries ==
  LET xs == probe.input
      V == { i \in 1..Len(xs) : ~xs[i].nan }
  IN (Applied("stats") /\ V # {}) =>
       /\ probe.output.n = Cardinality(V)
       /\ probe.output.avg = Money(Round(100 * SumAt(xs, V), Cardinality(V)))
       /\ \E i \in V : probe.output.min = Money(100 * xs[i].v)
       /\ \A i \in V : probe.output.min.cents <= 100 * xs[i].v
       /\ \E i \in V : probe.output.max = Money(100 * xs[i].v)
       /\ \A i \in V : probe.output.max.cents >= 100 * xs[i].v

\* C25: of a list with no valid number, empty or not, the statistics are
\* {min: null, max: null, avg: null, n: 0}.
C25_StatsSentinel ==
  (Applied("stats") /\ \A i \in 1..Len(probe.input) : probe.input[i].nan) =>
    probe.output = [min |-> MoneyNull, max |-> MoneyNull, avg |-> MoneyNull, n |-> 0]

\* C26: a click on the annual chart at date D, whose month key K the catalog
\* lists for the node and which is not the current month, starts an hourly
\* load for K; and when an hourly load that was started with day D for the
\* month of D succeeds, not superseded, with rows that contain D, while day
\* is still D, day stays D, whichever the first date of the rows is.
C26_DrillLoadKeepsDay ==
  [][/\ ev'.op = "annual" =>
          LET D == ev'.arg
              K == << D[1], D[2], D[3], D[4], "_", D[6], D[7] >>
              listed == IF indexData = Null THEN { } ELSE ListedMonths(indexData[1], node)
          IN (K \in listed /\ K # month) =>
               /\ Started("month", [project |-> projectKey, node |-> node, month |-> K])
               /\ \A q \in requests' : (q.axis = "month" /\ ~q.cancel) => q.day = D
     /\ (Committed(ev', "month") /\ ev'.ok) =>
          \A q \in requests \ requests' :
            (/\ q.axis = "month" /\ q.day # Empty
             /\ q.month = << q.day[1], q.day[2], q.day[3], q.day[4], "_", q.day[6], q.day[7] >>
             /\ day = q.day
             /\ q.day \in SeriesDates([monthlySeries |-> monthlySeries'])) =>
               day' = q.day]_vars

\* C26 happens: the hourly load of 2024_03, started with day 2024-03-16, has
\* just succeeded with rows whose first date is 2024-03-15, and day is
\* 2024-03-16
C26_Witness ==
  /\ Committed(ev, "month") /\ ev.ok
  /\ month = M2024_03 /\ day = D2024_03_16
  /\ D2024_03_15 \in SeriesDates(St)
  /\ D2024_03_16 \in SeriesDates(St)

\* the outstanding requests of an axis in record s
Outstanding(axis, s) == { q \in s.requests : q.axis = axis }

\* C27: loads of different axes do not supersede each other.  A step that
\* changes month, and neither project nor node, leaves the outstanding daily
\* requests as they were; so the successful response of a daily request that
\* is not superseded is committed: the daily series becomes the rows of the
\* document and year the year of its last row.  And the arrival of a daily
\* response leaves the outstanding hourly requests, the hourly loading flag,
\* the hourly series and its metadata as they were.
C27_AxesDoNotSupersede ==
  [][/\ (month' # month /\ projectKey' = projectKey /\ node' = node) =>
          Outstanding("daily", St)' = Outstanding("daily", St)
     /\ (ev'.op \in { "response", "discard" } /\ ev'.key = "daily") =>
          /\ Outstanding("month", St)' = Outstanding("month", St)
          /\ loading'.month = loading.month
          /\ monthlySeries' = monthlySeries /\ monthlyMeta' = monthlyMeta
          /\ \A q \in requests \ requests' :
               (~q.cancel /\ ev'.ok) =>
                 /\ Committed(ev', "daily")
                 /\ out'.daily.state = "ok"
                 /\ dailySeries' = DailyRows(out'.daily.doc[1])
                 /\ dailySeries' # << >> =>
                      year' = Slice(dailySeries'[Len(dailySeries')].d, 0, 4)]_vars

\* C27 happens: with the daily load of node X outstanding, the month was
\* changed to 2024_03, the one change the user made; the daily response has
\* now been committed and the hourly load of 2024_03 is still outstanding
C27_Witness ==
  /\ Committed(ev, "daily") /\ ev.ok
  /\ nuser = 1 /\ node = "X" /\ projectKey = PROJECTS[1] /\ month = M2024_03
  /\ dailySeries # << >> /\ year = Y2023
  /\ \E q \in requests : q.axis = "month" /\ q.month = M2024_03 /\ ~q.cancel
  /\ loading.month

\* C28: the daily series held in state is in ascending order of date,
\* whatever the order of the rows of the document it was loaded from; so are
\* the annual chart taken from it, and the row the default year was taken
\* from, the last, is the row of the latest date.
C28_DailySeriesAscending ==
  /\ \A i, j \in 1..Len(dailySeries) :
       i < j => ~StrLess(dailySeries[j].d, dailySeries[i].d)
  /\ \A i, j \in 1..Len(annualChart) :
       i < j => ~StrLess(annualChart[j].t, annualChart[i].t)
  /\ (Committed(ev, "daily") /\ ev.ok /\ dailySeries # << >>) =>
       \A i \in 1..Len(dailySeries) : ~StrLess(year, Slice(dailySeries[i].d, 0, 4))

\* C29: in every state the months of the month control are the month keys
\* that the loaded catalog lists for the selected node, each once, in
\* ascending order whatever their order in the catalog; there are none when
\* no catalog is loaded, no node is selected, or the catalog does not list
\* the selected node.
C29_MonthOptionsListedAscending ==
  LET listed == IF indexData = Null \/ node = "" THEN { }
                ELSE ListedMonths(indexData[1], node)
  IN /\ Elems(monthOptions) = listed
     /\ Len(monthOptions) = Cardinality(listed)
     /\ \A i, j \in 1..Len(monthOptions) :
          i < j => StrLess(monthOptions[i], monthOptions[j])
     /\ indexData = Null => monthOptions = << >>
     /\ node = "" => monthOptions = << >>
     /\ (indexData # Null /\ \A i \in 1..Len(indexData[1].nodes) :
                               indexData[1].nodes[i].node # node) =>
          monthOptions = << >>

\* a catalog that lists 2024_04 before 2024_03 for the selected node, and
\* the control that lists them in order
C29_Witness ==
  /\ indexData # Null /\ node # ""
  /\ \E i \in 1..Len(indexData[1].nodes) :
       /\ indexData[1].nodes[i].node = node
       /\ indexData[1].nodes[i].months = << M2024_04, M2024_03 >>
  /\ monthOptions = << M2024_03, M2024_04 >>

\* C30: when every request is eventually answered and the user makes no
\* further change, eventually and from then on no axis is flagged as loading.
C30_LoadingEventuallyClears ==
  <>[](\A axis \in Axes : ~loading[axis])

\* the request issued last for an axis failed while it was not superseded,
\* and no request of that axis was issued since
FailedLast(axis) ==
  /\ out[axis].state = "fail"
  /\ ~loading[axis]
  /\ \A q \in requests : q.axis # axis

\* C31: while the last load of an axis is a load that failed, not superseded,
\* and no newer load of that axis has started, the error message is not
\* empty; neither the start nor the outcome of a load of another axis erases
\* it.
C31_FailureMessageStays ==
  \A axis \in Axes : FailedLast(axis) => error # Empty

\* what a request was issued with, whatever became of it
Sent(q) == [axis |-> q.axis, project |-> q.project, node |-> q.node,
            month |-> q.month, day |-> q.day]

\* the daily and hourly requests issued in this step
IssuedNow ==
  { q \in requests' :
      /\ q.axis \in { "daily", "month" }
      /\ \A o \in requests : Sent(o) # Sent(q) }

\* C32: every daily or hourly request is issued for a project whose catalog is
\* loaded and for a node that this catalog lists, and every hourly request
\* for a month that this catalog lists for that node; so no daily or hourly
\* request is issued between a change of project and the arrival of the
\* catalog of the new project.
C32_RequestsForListedKeys ==
  [][\A q \in IssuedNow :
       /\ indexData' # Null
       /\ src'.idx.project = q.project
       /\ \E i \in 1..Len(indexData'[1].nodes) : indexData'[1].nodes[i].node = q.node
       /\ q.axis = "month" => q.month \in ListedMonths(indexData'[1], q.node)]_vars

\* the answers that can arrive for request q: a document or a failure
Answers(q) ==
  { [ok |-> TRUE, doc |-> d] :
      d \in IF q.axis = "idx" THEN Catalogs
            ELSE IF q.axis = "daily" THEN DailyPayloads
            ELSE HourlyPayloads(q.project, q.node, q.month) }
    \cup { [ok |-> FALSE, doc |-> f] : f \in Failures }

\* the record reached from record t when answer r arrives for the request
\* that was issued as q
Arrive(q, r, t) ==
  LET o == CHOOSE o \in t.requests : Sent(o) = Sent(q)
      a == [t EXCEPT !.requests = @ \ { o }]
      b == IF ~r.ok THEN LoadFailure(o, r.doc, a)
           ELSE IF o.axis = "idx" THEN IndexSuccess(o, r.doc, a)
           ELSE IF o.axis = "daily" THEN DailySuccess(o, r.doc, a)
           ELSE HourlySuccess(o, r.doc, a)
  IN Flush(Deps(t), b)

\* what the user sees of a record
Shown(t) ==
  << t.projectKey, t.node, t.year, t.month, t.day, t.indexData,
     t.dailySeries, t.monthlySeries, t.error >>

\* C33: with the user's changes and the contents of the responses fixed, the
\* selection, the catalog, the two series and the error message that are
\* reached once every response has arrived do not depend on the order of
\* arrival of responses that are in flight together.  Stated for two requests
\* for different keys that are alone in flight and whose answers start no
\* further load: both orders of arrival of the same two answers end in the
\* same shown state.
C33_ArrivalOrderImmaterial ==
  \A q1, q2 \in requests :
    (Sent(q1) # Sent(q2) /\ requests = { q1, q2 }) =>
      \A r1 \in Answers(q1), r2 \in Answers(q2) :
        LET t12 == Arrive(q2, r2, Arrive(q1, r1, St))
            t21 == Arrive(q1, r1, Arrive(q2, r2, St))
        IN (t12.requests = { } /\ t21.requests = { }) => Shown(t12) = Shown(t21)

\* C34: while a request of an axis that is not superseded is outstanding, the
\* data of that axis is empty: no catalog during a catalog load, no daily
\* rows during a daily load, no hourly rows and no metadata during an hourly
\* load.
C34_NoDataWhileLoading ==
  \A q \in requests :
    ~q.cancel =>
      /\ q.axis = "idx" => indexData = Null
      /\ q.axis = "daily" => dailySeries = << >>
      /\ q.axis = "month" => monthlySeries = << >> /\ monthlyMeta = Null

\* C34 happens: the node was changed while the daily series of the node
\* before was shown with its default year; the daily load of the new node is
\* outstanding and the series is empty
C34_Witness ==
  /\ ev.op = "node" /\ year = Y2023
  /\ \E q \in requests : q.axis = "daily" /\ ~q.cancel /\ q.node = node
  /\ dailySeries = << >>

\* C35: whenever the daily series is non-empty, the selected year is the
\* year of one of its dates, and so the annual slice is non-empty.
C35_YearAmongSeriesYears ==
  dailySeries # << >> =>
    /\ \E i \in 1..Len(dailySeries) : Slice(dailySeries[i].d, 0, 4) = year
    /\ annualChart # << >>

\* C35 happens: the series of two years is shown and a click on the
\* historical chart picked the earlier year, which is not the year of the
\* catalog's last month; the annual slice holds that year's one row
C35_Witness ==
  /\ ev.op = "hist" /\ ev.arg = Y2023 /\ year = Y2023
  /\ Len(dailySeries) = 4
  /\ Len(annualChart) = 1

\* C36: no request has an empty key component: every request names a
\* project, every daily or hourly request a node, every hourly request a
\* month.  While no node is selected no daily or hourly request is live, and
\* while no month is selected no hourly request is live; a run of the daily
\* or hourly effect in such a state leaves the state as it is.
C36_NoRequestWithEmptyKey ==
  /\ \A q \in requests :
       /\ q.project # ""
       /\ q.axis \in { "daily", "month" } => q.node # ""
       /\ q.axis = "month" => q.month # Empty
  /\ node = "" =>
       /\ \A q \in requests : q.axis \in { "daily", "month" } => q.cancel
       /\ DailyEffect(St, St) = St
       /\ HourlyEffect(St, St) = St
  /\ month = Empty =>
       /\ \A q \in requests : q.axis = "month" => q.cancel
       /\ HourlyEffect(St, St) = St

\* C36 happens: the catalog has arrived and its default node lists no month;
\* the daily request of that node is outstanding, and the hourly effect, run
\* for the new node without a month, issued nothing and left the hourly
\* loading flag down
C36_Witness ==
  /\ ev.op = "response" /\ ev.key = "idx"
  /\ node # "" /\ month = Empty
  /\ \E q \in requests : q.axis = "daily" /\ ~q.cancel /\ q.node = node
  /\ \A q \in requests : q.axis # "month"
  /\ ~loading.month

====
